---- MODULE Spec2Model ----
(***************************************************************************)
(* verify-same-kmer-content: the bit-packed k-mer codec (src/src/kmer.rs), *)
(* the streaming FASTA/GFA k-mer parser (src/src/kmer_iterator.rs) and the *)
(* k-mer set comparison (src/src/main.rs).                                 *)
(*                                                                         *)
(* Bytes are one-character strings; "EOF" stands for read_char() == None.  *)
(* A k-mer is the value of the backing unsigned integer.                   *)
(***************************************************************************)
EXTENDS Integers, Sequences, FiniteSets, TLC

VARIABLES
    iterator,       \* the KmerIterator under test in SpecParser
    character_buffer, \* its field character_buffer: the byte read last
    consumed,       \* bytes of the stream read so far
    at_eof,         \* read_char() has returned None
    last,           \* what the latest step of next() did: Pending / Some / None
    log,            \* warnings logged so far
    panicked,       \* "" or the message of the panic that aborted the run
    run,            \* history: the sequence run of the current record
    emitted,        \* history: the k-mers returned during the current run
    tally,          \* history: counts over the whole stream
    previous_state, \* history: iterator.state before the latest step
    raw,            \* history: the line structure of the bytes read so far
    config,                 \* compare_kmer_sets: the Config
    pc,                     \* the position reached in compare_kmer_sets
    kmer_iter_unitigs,
    kmer_iter_test_tigs,
    kmers_unitigs,
    kmers_test_tigs,
    unitig_kmers_without_superstrings,
    unitig_kmer_iterator,   \* index of the element peek() returns, in kmers_unitigs
    test_tig_kmer_iterator, \* the same in kmers_test_tigs
    superfluous_unitig_kmer_count,
    superfluous_test_tig_kmer_count,
    verdict,                \* "", "Ok", "Mismatch", "panic" or "hang"
    content,                \* history: the canonical k-mers the two streams hold
    segment,        \* SpecSegment: a second iterator, fed the same segment lines
    codec,          \* SpecCodec: a k-mer and the operation applied to it
    dispatch        \* SpecMain: main() and the k-mer type it picks

parser_vars ==
    <<iterator, character_buffer, consumed, at_eof, last, log, panicked, run, emitted, tally,
      previous_state, raw>>

compare_vars ==
    <<config, pc, kmer_iter_unitigs, kmer_iter_test_tigs, kmers_unitigs,
      kmers_test_tigs, unitig_kmers_without_superstrings, unitig_kmer_iterator,
      test_tig_kmer_iterator, superfluous_unitig_kmer_count,
      superfluous_test_tig_kmer_count, verdict, content>>

vars == <<parser_vars, compare_vars, segment, codec, dispatch>>

(***************************************************************************)
(* Bounds of the model.                                                    *)
(***************************************************************************)
MaxK == 2
MaxBytes == 8
MaxTestBytes == 5
MaxCodecK == 4
MaxMainK == 66

(***************************************************************************)
(* Unsigned integers of a fixed width.                                     *)
(***************************************************************************)
Pow2(n) == 2 ^ n

RECURSIVE BitOr(_, _)
BitOr(a, b) ==
    IF a = 0 THEN b
    ELSE IF b = 0 THEN a
    ELSE (IF a % 2 = 1 \/ b % 2 = 1 THEN 1 ELSE 0) + 2 * BitOr(a \div 2, b \div 2)

RECURSIVE BitAnd(_, _)
BitAnd(a, b) ==
    IF a = 0 \/ b = 0 THEN 0
    ELSE (IF a % 2 = 1 /\ b % 2 = 1 THEN 1 ELSE 0) + 2 * BitAnd(a \div 2, b \div 2)

\* x << n truncated to w bits; a shift amount >= w wraps as in a release build.
Shl(w, x, n) == (x * Pow2(n % w)) % Pow2(w)

Shr(x, n) == x \div Pow2(n)

Not(w, x) == Pow2(w) - 1 - x

\* The backing integer main() picks for a k-mer size.
\* The table of main's match with every width of it shifted by one K.
IntegerBits_late(k) ==
    IF k <= 5 THEN 8 ELSE IF k <= 9 THEN 16 ELSE IF k <= 17 THEN 32
    ELSE IF k <= 33 THEN 64 ELSE 128

IntegerBits(k) ==
    IF k <= 4 THEN 8 ELSE IF k <= 8 THEN 16 ELSE IF k <= 16 THEN 32
    ELSE IF k <= 32 THEN 64 ELSE 128

(***************************************************************************)
(* The k-mer codec.                                                        *)
(***************************************************************************)
Bases == {"A", "C", "G", "T"}

\* character_bits with the codes of G and T exchanged.
character_bits_exchanged(character) ==
    CASE character = "A" -> 0
      [] character = "C" -> 1
      [] character = "G" -> 3
      [] character = "T" -> 2

character_bits(character) ==
    CASE character = "A" -> 0
      [] character = "C" -> 1
      [] character = "G" -> 2
      [] character = "T" -> 3

RECURSIVE fold_from_iter(_, _, _)
fold_from_iter(w, result, iter) ==
    IF iter = <<>> THEN result
    ELSE fold_from_iter(w, BitOr(Shl(w, result, 2), character_bits(Head(iter))), Tail(iter))

\* BitPackedKmer::from_iter on a window of K bytes in {A,C,G,T}.
from_iter(k, iter) == fold_from_iter(IntegerBits(k), 0, iter)

RECURSIVE reverse_complement_loop(_, _, _, _)
reverse_complement_loop(w, n, source, result) ==
    IF n = 0 THEN result
    ELSE reverse_complement_loop(w, n - 1, Shr(source, 2),
                                 BitOr(Shl(w, result, 2), BitAnd(source, 3)))

\* reverse_complement without the complement: the bases reversed only.
reverse_complement_reversal(k, kmer) ==
    reverse_complement_loop(IntegerBits(k), k, kmer, 0)

reverse_complement(k, kmer) ==
    reverse_complement_loop(IntegerBits(k), k, Not(IntegerBits(k), kmer), 0)

\* canonical, returning the k-mer itself always.
canonical_itself(k, kmer) == kmer

canonical(k, kmer) ==
    LET rc == reverse_complement(k, kmer)
    IN  IF rc < kmer THEN rc ELSE kmer

predecessor(k, kmer, character) ==
    BitOr(Shr(kmer, 2), Shl(IntegerBits(k), character_bits(character), (k - 1) * 2))

successor(k, kmer, character) ==
    LET w == IntegerBits(k)
        shifted == BitOr(Shl(w, kmer, 2), character_bits(character))
        mask == Not(w, Shl(w, 3, k * 2))
    IN  BitAnd(shifted, mask)

\* The assertions and the panic of BitPackedKmer::from_iter, in the order the
\* code meets them: "" when a k-mer is made.
from_iter_panic(k, iter) ==
    IF 2 * k > IntegerBits(k) THEN "assertion failed: 2 * K <= 8 * size_of Integer"
    ELSE IF Len(iter) # k THEN "assertion failed: left == right"
    ELSE IF \E i \in 1..Len(iter) : iter[i] \notin Bases THEN "Not a DNA character"
    ELSE ""

CHARACTERS == <<"A", "C", "G", "T">>

\* Display for BitPackedKmer: the loop of lines 105-110, n characters to go.
RECURSIVE fmt_loop(_, _, _)
fmt_loop(w, n, current) ==
    IF n = 0 THEN <<>>
    ELSE LET mask_shift == w - 2
             mask == Shl(w, 3, mask_shift)
             bits == Shr(BitAnd(current, mask), mask_shift)
         IN  <<CHARACTERS[bits + 1]>> \o fmt_loop(w, n - 1, Shl(w, current, 2))

\* fmt without moving the k-mer to the high end of the integer first.
fmt_unaligned(k, kmer) == fmt_loop(IntegerBits(k), k, kmer)

fmt(k, kmer) ==
    fmt_loop(IntegerBits(k), k, Shl(IntegerBits(k), kmer, IntegerBits(k) - 2 * k))

(***************************************************************************)
(* BitPackedVectorKmer: a BitVec is the sequence of its bits, index 0      *)
(* first.                                                                  *)
(***************************************************************************)
RECURSIVE vector_from_iter(_)
vector_from_iter(iter) ==
    IF iter = <<>> THEN <<>>
    ELSE LET bits == character_bits(iter[Len(iter)])
         IN  vector_from_iter(SubSeq(iter, 1, Len(iter) - 1))
                \o <<BitAnd(bits, 2) # 0, BitAnd(bits, 1) # 0>>

vector_from_iter_panic(iter) ==
    IF \E i \in 1..Len(iter) : iter[i] \notin Bases THEN "Not a DNA character" ELSE ""

\* Display for BitPackedVectorKmer, over chunks(2).
vector_fmt(kmer) ==
    [i \in 1..(Len(kmer) \div 2) |->
        LET bits == <<kmer[2 * i - 1], kmer[2 * i]>>
        IN  CASE bits = <<FALSE, FALSE>> -> "A"
              [] bits = <<FALSE, TRUE>> -> "C"
              [] bits = <<TRUE, FALSE>> -> "G"
              [] bits = <<TRUE, TRUE>> -> "T"]

\* chunks(2).rev().flat_map(|bits| [!bits[0], !bits[1]]).collect()
vector_reverse_complement(kmer) ==
    LET chunks == Len(kmer) \div 2
    IN  [i \in 1..(2 * chunks) |->
            LET chunk == chunks - ((i - 1) \div 2)
            IN  IF i % 2 = 1 THEN ~kmer[2 * chunk - 1] ELSE ~kmer[2 * chunk]]

\* BitSlice::shift_right: towards the higher indices, the vacated bits false.
shift_right(bits, by) ==
    [i \in 1..Len(bits) |-> IF i <= by THEN FALSE ELSE bits[i - by]]

\* BitSlice::shift_left: towards index 0, the vacated bits false.
shift_left(bits, by) ==
    [i \in 1..Len(bits) |-> IF i + by > Len(bits) THEN FALSE ELSE bits[i + by]]

\* BitSlice::set(index, value), index counted from 0.
set(bits, index, value) == [bits EXCEPT ![index + 1] = value]

vector_predecessor(kmer, character) ==
    LET bits == character_bits(character)
        shifted == shift_right(kmer, 2)
    IN  set(set(shifted, 1, BitAnd(bits, 1) # 0), 0, BitAnd(bits, 2) # 0)

vector_successor(kmer, character) ==
    LET bits == character_bits(character)
        shifted == shift_left(kmer, 2)
        kmer_len == Len(shifted)
    IN  set(set(shifted, kmer_len - 1, BitAnd(bits, 1) # 0), kmer_len - 2, BitAnd(bits, 2) # 0)

\* Ord for BitVec: the first differing bit decides, then the length.
vector_lt(a, b) ==
    \/ \E i \in 1..Len(a) :
        /\ i <= Len(b)
        /\ ~a[i] /\ b[i]
        /\ \A j \in 1..(i - 1) : a[j] = b[j]
    \/ /\ Len(a) < Len(b)
       /\ \A j \in 1..Len(a) : a[j] = b[j]

\* Kmer::canonical for BitPackedVectorKmer.
vector_canonical(kmer) ==
    LET rc == vector_reverse_complement(kmer)
    IN  IF vector_lt(rc, kmer) THEN rc ELSE kmer

(***************************************************************************)
(* The parser: KmerIterator.                                               *)
(***************************************************************************)
EOF == "EOF"

SequenceStates == {"GfaSequence", "FaSequence"}

Bytes == {"A", "C", "T", "a", ">", "S", "\n", "\t", "N"}

to_ascii_uppercase(character) ==
    CASE character = "a" -> "A"
      [] character = "c" -> "C"
      [] character = "g" -> "G"
      [] character = "t" -> "T"
      [] character = "s" -> "S"
      [] OTHER -> character

\* KmerIterator::new, but for character_buffer, which the model keeps beside
\* the record. pc is the position inside the GfaS arm: "match" at the
\* read of line 112, "field" inside the loop of lines 114-124.
new(k, panic_on_parse_error) ==
    [k |-> k, state |-> "None", format |-> "None", buffer |-> <<>>,
     sequence_count |-> 0, character_count |-> 0,
     panic_on_parse_error |-> panic_on_parse_error, pc |-> "match"]

\* read_char stores the byte it read in character_buffer; at the end of the
\* stream the field keeps the previous byte.
read_char(buffer, character) == IF character = EOF THEN buffer ELSE character

\* What one read of a byte makes of the iterator: the iterator afterwards, the
\* k-mer returned (a sequence of length 0 or 1), whether next() returns, and
\* the warning or panic raised.
Outcome(it, item, returned, warning, panic) ==
    [iter |-> it, item |-> item, returned |-> returned, warning |-> warning, panic |-> panic]

\* Exhausted, raising "Found no kmers" whatever the format.
ExhaustedAlwaysRaises(it) ==
    IF it.panic_on_parse_error
    THEN [iter |-> it, item |-> <<>>, returned |-> TRUE, warning |-> "",
          panic |-> "Found no kmers"]
    ELSE [iter |-> it, item |-> <<>>, returned |-> TRUE, warning |-> "Found no kmers",
          panic |-> ""]

\* Lines 204-212: the exit of next() once state is Eof.
Exhausted(it) ==
    IF it.format = "None"
    THEN IF it.panic_on_parse_error
         THEN Outcome(it, <<>>, TRUE, "", "Found no kmers")
         ELSE Outcome(it, <<>>, TRUE, "Found no kmers", "")
    ELSE Outcome(it, <<>>, TRUE, "", "")

\* A step that leaves the while loop of next() running, or ends it in Eof.
Continue(it) ==
    IF it.state = "Eof" THEN Exhausted(it) ELSE Outcome(it, <<>>, FALSE, "", "")

ContinueWarn(it, warning) == Outcome(it, <<>>, FALSE, warning, "")

Panic(it, message) == Outcome(it, <<>>, TRUE, "", message)

\* StateNone, taking the format of every marker it reads.
StateNoneRetags(it, character) ==
    IF character = "S" THEN
        IF it.format = "Fa" THEN
            IF it.panic_on_parse_error
            THEN Panic(it, "Found GFA within fasta")
            ELSE ContinueWarn([it EXCEPT !.format = "Gfa", !.state = "GfaS"],
                              "Found GFA within fasta")
        ELSE Continue([it EXCEPT !.format = "Gfa", !.state = "GfaS"])
    ELSE IF character = ">" THEN
        IF it.format = "Gfa" THEN
            IF it.panic_on_parse_error
            THEN Panic(it, "Found fasta within GFA")
            ELSE ContinueWarn([it EXCEPT !.format = "Fa", !.state = "FaId"],
                              "Found fasta within GFA")
        ELSE Continue([it EXCEPT !.format = "Fa", !.state = "FaId"])
    ELSE IF character = EOF THEN Continue([it EXCEPT !.state = "Eof"])
    ELSE Continue(it)

StateNone(it, character) ==
    IF character = "S" THEN
        IF it.format = "Fa" THEN
            IF it.panic_on_parse_error
            THEN Panic(it, "Found GFA within fasta")
            ELSE ContinueWarn([it EXCEPT !.state = "GfaS"], "Found GFA within fasta")
        ELSE Continue([it EXCEPT !.format = "Gfa", !.state = "GfaS"])
    ELSE IF character = ">" THEN
        IF it.format = "Gfa" THEN
            IF it.panic_on_parse_error
            THEN Panic(it, "Found fasta within GFA")
            ELSE ContinueWarn([it EXCEPT !.state = "FaId"], "Found fasta within GFA")
        ELSE Continue([it EXCEPT !.format = "Fa", !.state = "FaId"])
    ELSE IF character = EOF THEN Continue([it EXCEPT !.state = "Eof"])
    ELSE Continue(it)

StateGfaS(it, character) ==
    IF it.pc = "match" THEN
        IF character = "\t" THEN Continue([it EXCEPT !.pc = "field"])
        ELSE Continue(it)
    ELSE
        IF character = "\t"
        THEN Continue([it EXCEPT !.sequence_count = @ + 1, !.state = "GfaSequence",
                                 !.pc = "match"])
        ELSE IF character = EOF THEN Continue([it EXCEPT !.state = "Eof", !.pc = "match"])
        ELSE Continue(it)

\* Window, emptying the window on every emission instead of sliding it by one.
WindowClearsOnEmit(it, sequence_state) ==
    IF Len(it.buffer) = it.k
    THEN [iter |-> [it EXCEPT !.character_count = @ + 1, !.buffer = <<>>],
          item |-> <<from_iter(it.k, it.buffer)>>, returned |-> TRUE,
          warning |-> "", panic |-> ""]
    ELSE IF it.state # sequence_state
    THEN Continue([it EXCEPT !.character_count = @ + Len(it.buffer), !.buffer = <<>>])
    ELSE Continue(it)

\* Window, leaving the window as it is when the sequence state is left.
WindowKeepsBuffer(it, sequence_state) ==
    IF Len(it.buffer) > it.k THEN Panic(it, "assertion failed: buffer.len() <= k")
    ELSE IF Len(it.buffer) = it.k
    THEN [iter |-> [it EXCEPT !.character_count = @ + 1, !.buffer = Tail(@)],
          item |-> <<from_iter(it.k, it.buffer)>>, returned |-> TRUE,
          warning |-> "", panic |-> ""]
    ELSE Continue(it)

\* Window, clearing the window without counting what it held.
WindowDropsResidue(it, sequence_state) ==
    IF Len(it.buffer) = it.k
    THEN [iter |-> [it EXCEPT !.character_count = @ + 1, !.buffer = Tail(@)],
          item |-> <<from_iter(it.k, it.buffer)>>, returned |-> TRUE,
          warning |-> "", panic |-> ""]
    ELSE IF it.state # sequence_state
    THEN Continue([it EXCEPT !.buffer = <<>>])
    ELSE Continue(it)

\* Lines 144-154 and 188-198: emit when the window is full, otherwise flush the
\* window into character_count once the sequence state is left. collect()
\* calls from_iter, which panics on a window it does not accept.
Window(it, sequence_state) ==
    IF Len(it.buffer) > it.k THEN Panic(it, "assertion failed: buffer.len() <= k")
    ELSE IF Len(it.buffer) = it.k
    THEN IF from_iter_panic(it.k, it.buffer) # ""
         THEN Panic(it, from_iter_panic(it.k, it.buffer))
         ELSE Outcome([it EXCEPT !.character_count = @ + 1, !.buffer = Tail(@)],
                      <<from_iter(it.k, it.buffer)>>, TRUE, "", "")
    ELSE IF it.state # sequence_state
    THEN Continue([it EXCEPT !.character_count = @ + Len(it.buffer), !.buffer = <<>>])
    ELSE Continue(it)

StateGfaSequence(it, character) ==
    LET upper == to_ascii_uppercase(character)
        read == IF character = EOF THEN [it EXCEPT !.state = "Eof"]
                ELSE IF upper \in Bases THEN [it EXCEPT !.buffer = Append(@, upper)]
                ELSE [it EXCEPT !.state = "None"]
    IN  Window(read, "GfaSequence")

StateFaId(it, character) ==
    IF character = "\n"
    THEN Continue([it EXCEPT !.sequence_count = @ + 1, !.state = "FaSequence"])
    ELSE IF character = EOF THEN Continue([it EXCEPT !.state = "Eof"])
    ELSE Continue(it)

\* StateFaSequence, pushing the byte as it was read, in its own case.
StateFaSequenceAsRead(it, character) ==
    LET upper == to_ascii_uppercase(character)
        read == IF character = EOF THEN [it EXCEPT !.state = "Eof"]
                ELSE IF upper \in Bases THEN [it EXCEPT !.buffer = Append(@, character)]
                ELSE IF upper = "\n" THEN it
                ELSE IF upper = ">" THEN [it EXCEPT !.state = "FaId"]
                ELSE [it EXCEPT !.state = "None"]
    IN  Window(read, "FaSequence")

StateFaSequence(it, character) ==
    LET upper == to_ascii_uppercase(character)
        read == IF character = EOF THEN [it EXCEPT !.state = "Eof"]
                ELSE IF upper \in Bases THEN [it EXCEPT !.buffer = Append(@, upper)]
                ELSE IF upper = "\n" THEN it
                ELSE IF upper = ">" THEN [it EXCEPT !.state = "FaId"]
                ELSE [it EXCEPT !.state = "None"]
    IN  Window(read, "FaSequence")

\* One pass of the loop of next() that reads `character`.
Step(it, character) ==
    CASE it.state = "None" -> StateNone(it, character)
      [] it.state = "GfaS" -> StateGfaS(it, character)
      [] it.state = "GfaSequence" -> StateGfaSequence(it, character)
      [] it.state = "FaId" -> StateFaId(it, character)
      [] it.state = "FaSequence" -> StateFaSequence(it, character)

(***************************************************************************)
(* The comparison: what compare_kmer_sets computes.                        *)
(***************************************************************************)
\* The streams compare_kmer_sets is given: FASTA records, a header line ">"
\* and a sequence over CompareBases, of at most MaxBytes bytes together in the
\* first file and of at most MaxTestBytes in the second.
CompareBases == {"A", "C", "G"}

Sequences(n) == [1..n -> CompareBases]

Record(sequence) == <<">", "\n">> \o sequence

RECURSIVE StreamsWithin(_)
StreamsWithin(bytes) ==
    {<<>>} \cup UNION {{Record(sequence) \o stream :
                            sequence \in Sequences(n),
                            stream \in StreamsWithin(bytes - 2 - n)} :
                       n \in 0..(bytes - 2)}

Streams == StreamsWithin(MaxBytes)

TestStreams == StreamsWithin(MaxTestBytes)

\* What draining an iterator leaves: the iterator, the k-mers in the order
\* next() returned them, and how the draining ended: "done" (next() returned
\* None), "panic", or "hang" (next() never returns). joined is history: the
\* k-mers that lie, with a neighbour of the same run, in a (k+1)-mer.
Drained(it, acc, outcome) ==
    [iter |-> it, kmers |-> acc.kmers, joined |-> acc.joined, outcome |-> outcome]

\* Iterator::collect and Iterator::all on kmer_iter.by_ref(): next() is called
\* until it returns None.
RECURSIVE Drain(_, _, _)
Drain(it, stream, acc) ==
    LET character == IF stream = <<>> THEN EOF ELSE Head(stream)
        o == Step(it, character)
        acc1 == [kmers |-> acc.kmers \o o.item,
                 joined |-> IF o.item # <<>> /\ acc.previous # <<>>
                            THEN acc.joined \cup {acc.previous[1], o.item[1]}
                            ELSE acc.joined,
                 previous |-> IF o.item # <<>> THEN o.item
                              ELSE IF o.iter.state \in SequenceStates THEN acc.previous
                              ELSE <<>>]
    IN  IF o.panic # "" THEN Drained(o.iter, acc1, "panic")
        ELSE IF o.returned /\ o.item = <<>> THEN Drained(o.iter, acc1, "done")
        ELSE IF character = EOF THEN Drained(o.iter, acc1, "hang")
        ELSE Drain(o.iter, Tail(stream), acc1)

\* The Config values compare_kmer_sets is run with; parse errors are warnings,
\* as they are by default.
Configs ==
    [k : 1..MaxK, do_not_verify : BOOLEAN, panic_on_parse_error : {FALSE},
     allow_cuttlefish2_errors : BOOLEAN]

\* Every stream drained by a fresh iterator, for every k.
Parsed ==
    [k \in 1..MaxK |-> [stream \in Streams \cup TestStreams |->
        Drain(new(k, FALSE), stream, [kmers |-> <<>>, joined |-> {}, previous |-> <<>>])]]

RECURSIVE map_canonical(_, _)
map_canonical(k, kmers) ==
    IF kmers = <<>> THEN <<>>
    ELSE <<canonical(k, Head(kmers))>> \o map_canonical(k, Tail(kmers))

RECURSIVE sort_insert(_, _)
sort_insert(sorted, kmer) ==
    IF sorted = <<>> THEN <<kmer>>
    ELSE IF kmer <= Head(sorted) THEN <<kmer>> \o sorted
    ELSE <<Head(sorted)>> \o sort_insert(Tail(sorted), kmer)

RECURSIVE sort_unstable(_)
sort_unstable(kmers) ==
    IF kmers = <<>> THEN <<>> ELSE sort_insert(sort_unstable(Tail(kmers)), Head(kmers))

\* Lines 103-113: retain the k-mers that differ from the one before them.
RECURSIVE retain(_, _)
retain(kmers, previous_kmer) ==
    IF kmers = <<>> THEN <<>>
    ELSE IF previous_kmer # <<>> /\ Head(kmers) = previous_kmer[1]
    THEN retain(Tail(kmers), <<Head(kmers)>>)
    ELSE <<Head(kmers)>> \o retain(Tail(kmers), <<Head(kmers)>>)

\* slice.binary_search(x).is_ok() on a sorted slice.
binary_search_is_ok(slice, kmer) == \E i \in 1..Len(slice) : slice[i] = kmer

\* has_superstring, accepting a k-mer only when none of its neighbours is
\* another k-mer.
has_superstring_other(k, kmer, all_kmers) ==
    \E character \in Bases :
        LET p == predecessor(k, kmer, character)
            n == successor(k, kmer, character)
        IN  \E x \in {p, n, reverse_complement(k, p), reverse_complement(k, n)} :
                x # kmer /\ binary_search_is_ok(all_kmers, x)

has_superstring(k, kmer, all_kmers) ==
    \E character \in Bases :
        LET predecessor_ == predecessor(k, kmer, character)
            successor_ == successor(k, kmer, character)
            predecessor_rc == reverse_complement(k, predecessor_)
            successor_rc == reverse_complement(k, successor_)
        IN  \/ binary_search_is_ok(all_kmers, predecessor_)
            \/ binary_search_is_ok(all_kmers, successor_)
            \/ binary_search_is_ok(all_kmers, predecessor_rc)
            \/ binary_search_is_ok(all_kmers, successor_rc)

\* successor() shifts the mask by 2k bits: an overflow when the backing integer
\* has exactly 2k bits.
ShiftOverflows(k) == 2 * k >= IntegerBits(k)

\* usize subtraction. A negative difference stands for the wrapped value
\* 2^64 + difference of a release build; a debug build panics instead.
usize_sub(a, b) == a - b

Wrapped(n) == n < 0

\* Ordering::cmp on two usize values that may be wrapped.
usize_cmp(a, b) ==
    IF Wrapped(a) = Wrapped(b)
    THEN IF a < b THEN "Less" ELSE IF a = b THEN "Equal" ELSE "Greater"
    ELSE IF Wrapped(a) THEN "Greater" ELSE "Less"

\* character_count() - sequence_count() * (k - 1), lines 124-125 and 246-247.
kmer_count(it, k) == usize_sub(it.character_count, it.sequence_count * (k - 1))

\* Lines 94-130 and 148-184: collect, sort, remove duplicates and check the
\* amount against the counters. The k-mers, and the panic ("" for none): when
\* the subtraction underflows a debug build panics on it and a release build
\* wraps, and then fails the assertion.
Collected(k, d) ==
    LET kmers == retain(sort_unstable(map_canonical(k, d.kmers)), <<>>)
        input_kmer_amount == Len(d.kmers)
        duplicate_kmer_amount == input_kmer_amount - Len(kmers)
        expected == kmer_count(d.iter, k)
    IN  [kmers |-> kmers,
         panic |-> IF Wrapped(expected) THEN "attempt to subtract with overflow, or left != right"
                   ELSE IF Len(kmers) + duplicate_kmer_amount # expected
                   THEN "assertion failed: left == right"
                   ELSE ""]

\* Lines 132-141.
without_superstrings(cfg, kmers) ==
    IF cfg.allow_cuttlefish2_errors
    THEN SelectSeq(kmers, LAMBDA kmer : ~has_superstring(cfg.k, kmer, kmers))
    ELSE <<>>

\* Lines 264-299: the verdict from the two flags and the two amounts.
VerdictOf(cfg, has_superfluous_kmers_unitigs, has_superfluous_kmers_test_tigs, unique_kmer_count, test_tigs_kmer_count) ==
    IF ~has_superfluous_kmers_unitigs /\ ~has_superfluous_kmers_test_tigs
    THEN IF usize_cmp(unique_kmer_count, test_tigs_kmer_count) = "Greater"
              /\ ~cfg.allow_cuttlefish2_errors
         THEN "Mismatch"
         ELSE "Ok"
    ELSE "Mismatch"

(***************************************************************************)
(* SpecParser: one KmerIterator fed a stream byte by byte.                 *)
(***************************************************************************)
Pending == [tag |-> "Pending"]
Some(kmer) == [tag |-> "Some", kmer |-> kmer]
None == [tag |-> "None"]

\* The bytes read_char() may deliver next: the stream has at most MaxBytes
\* bytes, and stays at its end once it was reached.
Readable ==
    IF at_eof \/ consumed >= MaxBytes THEN {EOF} ELSE Bytes \cup {EOF}

\* The variables of the other specifications, while they are not run.
SegmentIdle == [phase |-> "idle"]

CodecIdle == [pc |-> "idle"]

DispatchIdle == [pc |-> "idle"]

NoContent == [unitigs |-> {}, test_tigs |-> {}, joined |-> {}]

\* compare_kmer_sets before it has read anything.
CompareStart ==
    /\ kmer_iter_unitigs = new(config.k, config.panic_on_parse_error)
    /\ kmer_iter_test_tigs = new(config.k, config.panic_on_parse_error)
    /\ kmers_unitigs = <<>>
    /\ kmers_test_tigs = <<>>
    /\ unitig_kmers_without_superstrings = <<>>
    /\ unitig_kmer_iterator = 1
    /\ test_tig_kmer_iterator = 1
    /\ superfluous_unitig_kmer_count = 0
    /\ superfluous_test_tig_kmer_count = 0
    /\ verdict = ""
    /\ content = NoContent

ZeroTally == [kmers |-> 0, bases |-> 0, runs |-> 0, gfa_runs |-> 0]

\* The line structure of the raw bytes, read off the bytes alone: bol is the
\* beginning of a line; segment follows a line "S", tab, field, tab; fa_record
\* and gfa_record tell that a line began with ">", or reached the sequence
\* field of a segment line; marker tells that a byte ">" or "S" was read.
NoLines ==
    [bol |-> TRUE, segment |-> "no", fa_record |-> FALSE, gfa_record |-> FALSE,
     marker |-> FALSE]

Line(r, character) ==
    IF character = EOF THEN r
    ELSE [bol |-> (character = "\n"),
          segment |-> IF r.bol /\ character = "S" THEN "S"
                      ELSE IF r.segment = "S" /\ character = "\t" THEN "field"
                      ELSE IF r.segment = "field" /\ character \notin {"\t", "\n"} THEN "field"
                      ELSE "no",
          fa_record |-> r.fa_record \/ (r.bol /\ character = ">"),
          gfa_record |-> r.gfa_record \/ (r.segment = "field" /\ character = "\t"),
          marker |-> r.marker \/ character \in {">", "S"}]

InitParser ==
    /\ \E k \in 1..MaxK, p \in BOOLEAN : iterator = new(k, p)
    /\ character_buffer = "NUL"
    /\ consumed = 0
    /\ at_eof = FALSE
    /\ last = Pending
    /\ log = {}
    /\ panicked = ""
    /\ run = <<>>
    /\ emitted = <<>>
    /\ tally = ZeroTally
    /\ previous_state = "None"
    /\ raw = NoLines
    /\ config = [k |-> iterator.k, do_not_verify |-> TRUE,
                 panic_on_parse_error |-> iterator.panic_on_parse_error,
                 allow_cuttlefish2_errors |-> FALSE]
    /\ pc = "iterate"
    /\ CompareStart
    /\ segment = SegmentIdle
    /\ codec = CodecIdle
    /\ dispatch = DispatchIdle

\* The bookkeeping of a step: the stream position, the result of next(), the
\* log, and the history variables (which read the byte and the states only).
Read(character) ==
    LET o == Step(iterator, character)
        upper == to_ascii_uppercase(character)
        starts == iterator.state \notin SequenceStates /\ o.iter.state \in SequenceStates
        base == iterator.state \in SequenceStates /\ upper \in Bases
        run1 == IF starts THEN <<>> ELSE IF base THEN Append(run, upper) ELSE run
        emitted1 == IF starts THEN <<>> ELSE emitted \o o.item
    IN  /\ pc = "iterate"
        /\ panicked = ""
        /\ iterator' = o.iter
        /\ character_buffer' = read_char(character_buffer, character)
        /\ consumed' = IF character = EOF THEN consumed ELSE consumed + 1
        /\ at_eof' = (character = EOF)
        /\ last' = IF o.panic # "" \/ ~o.returned THEN Pending
                   ELSE IF o.item = <<>> THEN None ELSE Some(o.item[1])
        /\ log' = IF o.warning = "" THEN log ELSE log \cup {o.warning}
        /\ panicked' = o.panic
        /\ previous_state' = iterator.state
        /\ raw' = Line(raw, character)
        /\ run' = run1
        /\ emitted' = emitted1
        /\ tally' = [kmers |-> tally.kmers + Len(o.item),
                     bases |-> tally.bases + (IF base THEN 1 ELSE 0),
                     runs |-> tally.runs + (IF starts THEN 1 ELSE 0),
                     gfa_runs |-> tally.gfa_runs
                                  + (IF starts /\ o.iter.state = "GfaSequence" THEN 1 ELSE 0)]

ReadNone ==
    /\ iterator.state = "None"
    /\ \E c \in Readable : Read(c)
    /\ UNCHANGED <<compare_vars, segment, codec, dispatch>>

ReadGfaS ==
    /\ iterator.state = "GfaS"
    /\ \E c \in Readable : Read(c)
    /\ UNCHANGED <<compare_vars, segment, codec, dispatch>>

ReadGfaSequence ==
    /\ iterator.state = "GfaSequence"
    /\ \E c \in Readable : Read(c)
    /\ UNCHANGED <<compare_vars, segment, codec, dispatch>>

ReadFaId ==
    /\ iterator.state = "FaId"
    /\ \E c \in Readable : Read(c)
    /\ UNCHANGED <<compare_vars, segment, codec, dispatch>>

ReadFaSequence ==
    /\ iterator.state = "FaSequence"
    /\ \E c \in Readable : Read(c)
    /\ UNCHANGED <<compare_vars, segment, codec, dispatch>>

\* A call of next() on an exhausted iterator: the loop is not entered.
NextAtEof ==
    LET o == Exhausted(iterator)
    IN  /\ pc = "iterate"
        /\ iterator.state = "Eof"
        /\ panicked = ""
        /\ last' = None
        /\ log' = IF o.warning = "" THEN log ELSE log \cup {o.warning}
        /\ panicked' = o.panic
        /\ previous_state' = iterator.state
        /\ UNCHANGED <<iterator, character_buffer, consumed, at_eof, run, emitted, tally, raw>>
        /\ UNCHANGED <<compare_vars, segment, codec, dispatch>>

NextParser ==
    \/ ReadNone
    \/ ReadGfaS
    \/ ReadGfaSequence
    \/ ReadFaId
    \/ ReadFaSequence
    \/ NextAtEof

SpecParser == InitParser /\ [][NextParser]_vars

(***************************************************************************)
(* SpecCompare: compare_kmer_sets on two streams.                          *)
(***************************************************************************)
Range(f) == {f[i] : i \in DOMAIN f}

InitCompare ==
    /\ config \in Configs
    /\ pc = "read_unitigs"
    /\ CompareStart
    /\ segment = SegmentIdle
    /\ codec = CodecIdle
    /\ dispatch = DispatchIdle
    /\ iterator = new(config.k, config.panic_on_parse_error)
    /\ character_buffer = "NUL"
    /\ consumed = 0
    /\ at_eof = FALSE
    /\ last = Pending
    /\ log = {}
    /\ panicked = ""
    /\ run = <<>>
    /\ emitted = <<>>
    /\ tally = ZeroTally
    /\ previous_state = "None"
    /\ raw = NoLines

\* How reading one file ends: "" when compare_kmer_sets goes on, else "panic"
\* or "hang". c is what the verifying branch collected from the drained d;
\* shifts tells that the superstrings are computed (has_superstring calls
\* successor) in a build with overflow checks.
ReadFailure(cfg, d, c, shifts) ==
    IF d.outcome # "done" THEN d.outcome
    ELSE IF cfg.do_not_verify THEN ""
    ELSE IF c.panic # "" THEN "panic"
    ELSE IF /\ shifts
            /\ cfg.allow_cuttlefish2_errors
            /\ ShiftOverflows(cfg.k)
            /\ c.kmers # <<>>
    THEN "panic"
    ELSE ""

\* Lines 93-145, or 232-233 with do_not_verify: what reading the first input
\* file leaves, in a build with or without overflow checks.
AfterUnitigs(cfg, stream, overflow_checks) ==
    LET d == Parsed[cfg.k][stream]
        c == Collected(cfg.k, d)
        failure == ReadFailure(cfg, d, c, overflow_checks)
        stored == ~cfg.do_not_verify /\ failure = ""
    IN  [kmer_iter |-> d.iter,
         kmers |-> IF stored THEN c.kmers ELSE <<>>,
         without_superstrings |-> IF stored THEN without_superstrings(cfg, c.kmers) ELSE <<>>,
         content |-> {canonical(cfg.k, x) : x \in Range(d.kmers)},
         joined |-> {canonical(cfg.k, x) : x \in d.joined},
         failure |-> failure]

\* Lines 147-184, or 235-237 with do_not_verify: the same for the second file.
AfterTestTigs(cfg, stream) ==
    LET d == Parsed[cfg.k][stream]
        c == Collected(cfg.k, d)
        failure == ReadFailure(cfg, d, c, FALSE)
        stored == ~cfg.do_not_verify /\ failure = ""
    IN  [kmer_iter |-> d.iter,
         kmers |-> IF stored THEN c.kmers ELSE <<>>,
         content |-> {canonical(cfg.k, x) : x \in Range(d.kmers)},
         failure |-> failure]

\* What the two files can be read as, over all streams.
UnitigsFiles ==
    [cfg \in Configs |->
        {AfterUnitigs(cfg, stream, checks) : stream \in Streams, checks \in BOOLEAN}]

TestTigsFiles == [cfg \in Configs |-> {AfterTestTigs(cfg, stream) : stream \in TestStreams}]

ReadUnitigs ==
    /\ pc = "read_unitigs"
    /\ \E file \in UnitigsFiles[config] :
        /\ kmer_iter_unitigs' = file.kmer_iter
        /\ kmers_unitigs' = file.kmers
        /\ unitig_kmers_without_superstrings' = file.without_superstrings
        /\ content' = [content EXCEPT !.unitigs = file.content, !.joined = file.joined]
        /\ verdict' = file.failure
        /\ pc' = IF file.failure # "" THEN "done" ELSE "read_test_tigs"
    /\ UNCHANGED <<config, kmer_iter_test_tigs, kmers_test_tigs,
                   unitig_kmer_iterator, test_tig_kmer_iterator,
                   superfluous_unitig_kmer_count, superfluous_test_tig_kmer_count>>
    /\ UNCHANGED <<parser_vars, segment, codec, dispatch>>

\* The second file, and lines 186-190: the merge starts.
ReadTestTigs ==
    /\ pc = "read_test_tigs"
    /\ \E file \in TestTigsFiles[config] :
        /\ kmer_iter_test_tigs' = file.kmer_iter
        /\ kmers_test_tigs' = file.kmers
        /\ content' = [content EXCEPT !.test_tigs = file.content]
        /\ verdict' = file.failure
        /\ pc' = IF file.failure # "" THEN "done"
                 ELSE IF config.do_not_verify THEN "report"
                 ELSE "merge"
    /\ unitig_kmer_iterator' = 1
    /\ test_tig_kmer_iterator' = 1
    /\ superfluous_unitig_kmer_count' = 0
    /\ superfluous_test_tig_kmer_count' = 0
    /\ UNCHANGED <<config, kmer_iter_unitigs, kmers_unitigs,
                   unitig_kmers_without_superstrings>>
    /\ UNCHANGED <<parser_vars, segment, codec, dispatch>>

\* Line 192: both peek() calls return Some.
BothPeek ==
    /\ unitig_kmer_iterator <= Len(kmers_unitigs)
    /\ test_tig_kmer_iterator <= Len(kmers_test_tigs)

unitig_kmer == kmers_unitigs[unitig_kmer_iterator]

test_tig_kmer == kmers_test_tigs[test_tig_kmer_iterator]

\* Lines 197-200: the k-mer met in the Less arm counts as missing.
CountsAsMissing(kmer) == ~binary_search_is_ok(unitig_kmers_without_superstrings, kmer)

MergeUnchanged ==
    /\ UNCHANGED <<config, pc, kmer_iter_unitigs, kmer_iter_test_tigs,
                   kmers_unitigs, kmers_test_tigs, unitig_kmers_without_superstrings,
                   verdict, content>>
    /\ UNCHANGED <<parser_vars, segment, codec, dispatch>>

\* Lines 196-205.
MergeLess ==
    /\ pc = "merge"
    /\ BothPeek
    /\ unitig_kmer < test_tig_kmer
    /\ superfluous_unitig_kmer_count' =
            IF CountsAsMissing(unitig_kmer)
            THEN superfluous_unitig_kmer_count + 1
            ELSE superfluous_unitig_kmer_count
    /\ unitig_kmer_iterator' = unitig_kmer_iterator + 1
    /\ UNCHANGED <<test_tig_kmer_iterator, superfluous_test_tig_kmer_count>>
    /\ MergeUnchanged

\* Lines 206-209.
MergeEqual ==
    /\ pc = "merge"
    /\ BothPeek
    /\ unitig_kmer = test_tig_kmer
    /\ unitig_kmer_iterator' = unitig_kmer_iterator + 1
    /\ test_tig_kmer_iterator' = test_tig_kmer_iterator + 1
    /\ UNCHANGED <<superfluous_unitig_kmer_count, superfluous_test_tig_kmer_count>>
    /\ MergeUnchanged

\* Lines 210-214.
MergeGreater ==
    /\ pc = "merge"
    /\ BothPeek
    /\ unitig_kmer > test_tig_kmer
    /\ superfluous_test_tig_kmer_count' = superfluous_test_tig_kmer_count + 1
    /\ test_tig_kmer_iterator' = test_tig_kmer_iterator + 1
    /\ UNCHANGED <<unitig_kmer_iterator, superfluous_unitig_kmer_count>>
    /\ MergeUnchanged

\* Line 192: the loop ends as soon as one of the two iterators is exhausted.
MergeEnd ==
    /\ pc = "merge"
    /\ ~BothPeek
    /\ pc' = "report"
    /\ UNCHANGED <<config, kmer_iter_unitigs, kmer_iter_test_tigs,
                   kmers_unitigs, kmers_test_tigs, unitig_kmers_without_superstrings,
                   unitig_kmer_iterator, test_tig_kmer_iterator,
                   superfluous_unitig_kmer_count, superfluous_test_tig_kmer_count,
                   verdict, content>>
    /\ UNCHANGED <<parser_vars, segment, codec, dispatch>>

\* Lines 218-299: the statistics and the result. An underflow of line 246 or
\* 247 panics in a build with overflow checks and wraps in one without.
Report ==
    /\ pc = "report"
    /\ \E overflow_checks \in BOOLEAN :
        LET unique_kmer_count == kmer_count(kmer_iter_unitigs, config.k)
            test_tigs_kmer_count == kmer_count(kmer_iter_test_tigs, config.k)
        IN  verdict' =
                IF /\ overflow_checks
                   /\ (Wrapped(unique_kmer_count) \/ Wrapped(test_tigs_kmer_count))
                THEN "panic"
                ELSE VerdictOf(config, superfluous_unitig_kmer_count # 0,
                               superfluous_test_tig_kmer_count # 0,
                               unique_kmer_count, test_tigs_kmer_count)
    /\ pc' = "done"
    /\ UNCHANGED <<config, kmer_iter_unitigs, kmer_iter_test_tigs,
                   kmers_unitigs, kmers_test_tigs, unitig_kmers_without_superstrings,
                   unitig_kmer_iterator, test_tig_kmer_iterator,
                   superfluous_unitig_kmer_count, superfluous_test_tig_kmer_count, content>>
    /\ UNCHANGED <<parser_vars, segment, codec, dispatch>>

NextCompare ==
    \/ ReadUnitigs
    \/ ReadTestTigs
    \/ MergeLess
    \/ MergeEqual
    \/ MergeGreater
    \/ MergeEnd
    \/ Report

SpecCompare == InitCompare /\ [][NextCompare]_vars

(***************************************************************************)
(* SpecSegment: two iterators read GFA segment lines, S <tab> name <tab>   *)
(* sequence, then further tab-delimited fields up to the end of the line.  *)
(* The two streams are the same but for the bytes of the further fields.   *)
(***************************************************************************)
NameBytes == {"N"}

SequenceBytes == {"A", "C"}

TrailingBytes == {"S", ">", "N", "A"}

InitSegment ==
    /\ \E k \in 1..MaxK, p \in BOOLEAN : iterator = new(k, p)
    /\ character_buffer = "NUL"
    /\ consumed = 0
    /\ at_eof = FALSE
    /\ last = Pending
    /\ log = {}
    /\ panicked = ""
    /\ run = <<>>
    /\ emitted = <<>>
    /\ tally = ZeroTally
    /\ previous_state = "None"
    /\ raw = NoLines
    /\ config = [k |-> iterator.k, do_not_verify |-> TRUE,
                 panic_on_parse_error |-> iterator.panic_on_parse_error,
                 allow_cuttlefish2_errors |-> FALSE]
    /\ pc = "iterate"
    /\ CompareStart
    /\ segment = [phase |-> "bol", twin |-> iterator, twin_panicked |-> "",
                  first |-> <<>>, second |-> <<>>]
    /\ codec = CodecIdle
    /\ dispatch = DispatchIdle

\* The second iterator has stopped: next() returned None, or panicked.
TwinStopped == segment.twin.state = "Eof" \/ segment.twin_panicked # ""

\* Both iterators read a byte, `character` the first and `other` the second;
\* first and second are the k-mers each has returned.
Feed(character, other, phase) ==
    LET o == Step(iterator, character)
        t == IF TwinStopped
             THEN Outcome(segment.twin, <<>>, TRUE, "", segment.twin_panicked)
             ELSE Step(segment.twin, other)
    IN  /\ iterator.state # "Eof"
        /\ character # EOF => (~at_eof /\ consumed < MaxBytes)
        /\ Read(character)
        /\ segment' = [phase |-> phase, twin |-> t.iter, twin_panicked |-> t.panic,
                       first |-> segment.first \o o.item,
                       second |-> segment.second \o t.item]
        /\ UNCHANGED <<compare_vars, codec, dispatch>>

\* The record type "S" at the beginning of a line.
SegmentLine == segment.phase = "bol" /\ Feed("S", "S", "S")

SegmentTab == segment.phase = "S" /\ Feed("\t", "\t", "name")

SegmentName ==
    /\ segment.phase = "name"
    /\ \/ \E c \in NameBytes : Feed(c, c, "name")
       \/ Feed("\t", "\t", "sequence")

SegmentSequence ==
    /\ segment.phase = "sequence"
    /\ \/ \E c \in SequenceBytes : Feed(c, c, "sequence")
       \/ Feed("\t", "\t", "trailing")
       \/ Feed("\n", "\n", "bol")

\* A byte of the further fields: the two streams may differ in it.
SegmentTrailing ==
    /\ segment.phase = "trailing"
    /\ \/ \E c \in TrailingBytes, d \in TrailingBytes : Feed(c, d, "trailing")
       \/ Feed("\t", "\t", "trailing")
       \/ Feed("\n", "\n", "bol")

SegmentEnd == segment.phase # "idle" /\ Feed(EOF, EOF, segment.phase)

NextSegment ==
    \/ SegmentLine
    \/ SegmentTab
    \/ SegmentName
    \/ SegmentSequence
    \/ SegmentTrailing
    \/ SegmentEnd

SpecSegment == InitSegment /\ [][NextSegment]_vars

(***************************************************************************)
(* SpecCodec: a k-mer of either type is made from a window of bytes, and   *)
(* the operations of Kmer, Display and Ord are applied to it.              *)
(***************************************************************************)
KmerTypes == {"BitPackedKmer", "BitPackedVectorKmer"}

CodecBytes == Bases \cup {"a"}

\* The windows from_iter is given for a k-mer size: k bytes, or one less or
\* one more.
CodecWindows(k) ==
    UNION {[1..n -> CodecBytes] : n \in {m \in {k - 1, k, k + 1} : m >= 0}}

Strings(k) == [1..k -> Bases]

\* The value a field of type kmer_type holds before a k-mer is stored in it.
NoKmer(kmer_type) == IF kmer_type = "BitPackedKmer" THEN 0 ELSE <<>>

kmer_from_iter(kmer_type, k, iter) ==
    IF kmer_type = "BitPackedKmer" THEN from_iter(k, iter) ELSE vector_from_iter(iter)

kmer_from_iter_panic(kmer_type, k, iter) ==
    IF kmer_type = "BitPackedKmer" THEN from_iter_panic(k, iter)
    ELSE vector_from_iter_panic(iter)

kmer_reverse_complement(kmer_type, k, kmer) ==
    IF kmer_type = "BitPackedKmer" THEN reverse_complement(k, kmer)
    ELSE vector_reverse_complement(kmer)

kmer_canonical(kmer_type, k, kmer) ==
    IF kmer_type = "BitPackedKmer" THEN canonical(k, kmer) ELSE vector_canonical(kmer)

kmer_predecessor(kmer_type, k, kmer, character) ==
    IF kmer_type = "BitPackedKmer" THEN predecessor(k, kmer, character)
    ELSE vector_predecessor(kmer, character)

kmer_successor(kmer_type, k, kmer, character) ==
    IF kmer_type = "BitPackedKmer" THEN successor(k, kmer, character)
    ELSE vector_successor(kmer, character)

kmer_fmt(kmer_type, k, kmer) ==
    IF kmer_type = "BitPackedKmer" THEN fmt(k, kmer) ELSE vector_fmt(kmer)

\* Ord::cmp, derived on the field kmer of either type.
kmer_cmp(kmer_type, a, b) ==
    IF a = b THEN "Equal"
    ELSE IF kmer_type = "BitPackedKmer"
    THEN IF a < b THEN "Less" ELSE "Greater"
    ELSE IF vector_lt(a, b) THEN "Less" ELSE "Greater"

InitCodec ==
    /\ \E kmer_type \in KmerTypes, k \in 1..MaxCodecK :
        \E window \in CodecWindows(k) :
            codec = [pc |-> "from_iter", kmer_type |-> kmer_type, k |-> k,
                     window |-> window, kmer |-> NoKmer(kmer_type),
                     operation |-> "", operand |-> NoKmer(kmer_type),
                     character |-> "", other |-> <<>>, ordering |-> "",
                     text |-> <<>>, panic |-> ""]
    /\ segment = SegmentIdle
    /\ dispatch = DispatchIdle
    /\ config = [k |-> codec.k, do_not_verify |-> TRUE, panic_on_parse_error |-> FALSE,
                 allow_cuttlefish2_errors |-> FALSE]
    /\ pc = "codec"
    /\ CompareStart
    /\ iterator = new(config.k, config.panic_on_parse_error)
    /\ character_buffer = "NUL"
    /\ consumed = 0
    /\ at_eof = FALSE
    /\ last = Pending
    /\ log = {}
    /\ panicked = ""
    /\ run = <<>>
    /\ emitted = <<>>
    /\ tally = ZeroTally
    /\ previous_state = "None"
    /\ raw = NoLines

CodecUnchanged == UNCHANGED <<parser_vars, compare_vars, segment, dispatch>>

\* from_iter on the window: a panic, or a k-mer. A k-mer of another length
\* than k (pc "made") is not operated on.
FromIter ==
    /\ codec.pc = "from_iter"
    /\ LET panic == kmer_from_iter_panic(codec.kmer_type, codec.k, codec.window)
       IN  codec' =
            IF panic # ""
            THEN [codec EXCEPT !.pc = "panic", !.panic = panic, !.operation = "from_iter"]
            ELSE [codec EXCEPT
                    !.pc = IF Len(codec.window) = codec.k THEN "ready" ELSE "made",
                    !.kmer = kmer_from_iter(codec.kmer_type, codec.k, codec.window),
                    !.operation = "from_iter"]
    /\ CodecUnchanged

\* The k-mer is replaced by the result of an operation on it.
Apply(operation, character, result) ==
    codec' = [codec EXCEPT !.kmer = result, !.operand = codec.kmer,
                           !.operation = operation, !.character = character,
                           !.window = <<>>, !.other = <<>>, !.ordering = "",
                           !.text = <<>>]

\* A k-mer is there to operate on. A comparison leaves the k-mer as it was, so
\* nothing is applied after one that is not applied before it.
Operable == codec.pc = "ready" /\ codec.operation # "cmp"

ReverseComplement ==
    /\ Operable
    /\ Apply("reverse_complement", "",
             kmer_reverse_complement(codec.kmer_type, codec.k, codec.kmer))
    /\ CodecUnchanged

Canonical ==
    /\ Operable
    /\ Apply("canonical", "", kmer_canonical(codec.kmer_type, codec.k, codec.kmer))
    /\ CodecUnchanged

Predecessor ==
    /\ Operable
    /\ \E character \in Bases :
        Apply("predecessor", character,
              kmer_predecessor(codec.kmer_type, codec.k, codec.kmer, character))
    /\ CodecUnchanged

\* In BitPackedKmer the shift of the mask by 2K bits overflows when the integer
\* has 2K bits: a panic in a build with overflow checks, a shift by 0 without.
Successor ==
    /\ Operable
    /\ \E character \in Bases, overflow_checks \in BOOLEAN :
        IF /\ codec.kmer_type = "BitPackedKmer"
           /\ ShiftOverflows(codec.k)
           /\ overflow_checks
        THEN codec' = [codec EXCEPT !.pc = "panic",
                                    !.panic = "attempt to shift left with overflow",
                                    !.operand = codec.kmer, !.operation = "successor",
                                    !.character = character, !.window = <<>>,
                                    !.other = <<>>, !.ordering = "", !.text = <<>>]
        ELSE Apply("successor", character,
                   kmer_successor(codec.kmer_type, codec.k, codec.kmer, character))
    /\ CodecUnchanged

\* Display::fmt writes the k-mer out; the k-mer stays.
Fmt ==
    /\ Operable
    /\ codec' = [codec EXCEPT !.text = kmer_fmt(codec.kmer_type, codec.k, codec.kmer),
                              !.operation = "fmt", !.operand = codec.kmer,
                              !.character = "", !.other = <<>>, !.ordering = ""]
    /\ CodecUnchanged

\* Ord::cmp of the k-mer just made from the window with a k-mer made from
\* the string other.
Cmp ==
    /\ codec.pc = "ready"
    /\ codec.operation = "from_iter"
    /\ \E other \in Strings(codec.k) :
        codec' = [codec EXCEPT
                    !.other = other,
                    !.ordering = kmer_cmp(codec.kmer_type, codec.kmer,
                                          kmer_from_iter(codec.kmer_type, codec.k, other)),
                    !.operation = "cmp", !.operand = codec.kmer,
                    !.character = "", !.text = <<>>]
    /\ CodecUnchanged

NextCodec ==
    \/ FromIter
    \/ ReverseComplement
    \/ Canonical
    \/ Predecessor
    \/ Successor
    \/ Fmt
    \/ Cmp

SpecCodec == InitCodec /\ [][NextCodec]_vars

(***************************************************************************)
(* SpecMain: main() from the opening of the two files to the first window  *)
(* of K bases that compare_kmer_sets decodes with the k-mer type main       *)
(* picked.                                                                  *)
(***************************************************************************)
InitMain ==
    /\ \E k \in 0..MaxMainK, unitigs \in BOOLEAN, test_tigs \in BOOLEAN :
        dispatch = [pc |-> "open_unitigs", k |-> k, unitigs |-> unitigs,
                    test_tigs |-> test_tigs, kmer_type |-> "", integer |-> 0,
                    bytes_read |-> 0, result |-> "", panic |-> ""]
    /\ segment = SegmentIdle
    /\ codec = CodecIdle
    /\ config = [k |-> dispatch.k, do_not_verify |-> TRUE, panic_on_parse_error |-> FALSE,
                 allow_cuttlefish2_errors |-> FALSE]
    /\ pc = "main"
    /\ CompareStart
    /\ iterator = new(config.k, config.panic_on_parse_error)
    /\ character_buffer = "NUL"
    /\ consumed = 0
    /\ at_eof = FALSE
    /\ last = Pending
    /\ log = {}
    /\ panicked = ""
    /\ run = <<>>
    /\ emitted = <<>>
    /\ tally = ZeroTally
    /\ previous_state = "None"
    /\ raw = NoLines

MainUnchanged == UNCHANGED <<parser_vars, compare_vars, segment, codec>>

\* File::open(&config.unitigs)
OpenUnitigs ==
    /\ dispatch.pc = "open_unitigs"
    /\ dispatch' = IF dispatch.unitigs
                   THEN [dispatch EXCEPT !.pc = "open_test_tigs"]
                   ELSE [dispatch EXCEPT !.pc = "panic",
                                         !.panic = "--unitigs points to a file"]
    /\ MainUnchanged

\* File::open(&config.test_tigs)
OpenTestTigs ==
    /\ dispatch.pc = "open_test_tigs"
    /\ dispatch' = IF dispatch.test_tigs
                   THEN [dispatch EXCEPT !.pc = "match"]
                   ELSE [dispatch EXCEPT !.pc = "panic",
                                         !.panic = "--test-tigs points to a file"]
    /\ MainUnchanged

\* The arm 0 of the match.
MatchZero ==
    /\ dispatch.pc = "match"
    /\ dispatch.k = 0
    /\ dispatch' = [dispatch EXCEPT !.pc = "returned", !.result = "IllegalKmerSize"]
    /\ MainUnchanged

\* The arms 1 to 64 of the match.
MatchBitPackedKmer ==
    /\ dispatch.pc = "match"
    /\ dispatch.k \in 1..64
    /\ dispatch' = [dispatch EXCEPT !.pc = "compare_kmer_sets",
                                    !.kmer_type = "BitPackedKmer",
                                    !.integer = IntegerBits(dispatch.k)]
    /\ MainUnchanged

\* The arm _ of the match.
MatchBitPackedVectorKmer ==
    /\ dispatch.pc = "match"
    /\ dispatch.k > 64
    /\ dispatch' = [dispatch EXCEPT !.pc = "compare_kmer_sets",
                                    !.kmer_type = "BitPackedVectorKmer"]
    /\ MainUnchanged

\* compare_kmer_sets reads a first window of K bases of the unitigs and makes
\* a k-mer of it with the type main picked.
FirstKmer ==
    /\ dispatch.pc = "compare_kmer_sets"
    /\ \E character \in Bases :
        LET window == [i \in 1..dispatch.k |-> character]
            panic == kmer_from_iter_panic(dispatch.kmer_type, dispatch.k, window)
        IN  dispatch' = [dispatch EXCEPT !.pc = IF panic = "" THEN "kmer" ELSE "panic",
                                         !.bytes_read = dispatch.k,
                                         !.panic = panic]
    /\ MainUnchanged

NextMain ==
    \/ OpenUnitigs
    \/ OpenTestTigs
    \/ MatchZero
    \/ MatchBitPackedKmer
    \/ MatchBitPackedVectorKmer
    \/ FirstKmer

SpecMain == InitMain /\ [][NextMain]_vars

(***************************************************************************)
(* The comparison's claims.                                                *)
(***************************************************************************)
\* compare_kmer_sets returned Ok(()) or Err(Mismatch).
Returned == pc = "done" /\ verdict \in {"Ok", "Mismatch"}

\* The k-mer has a superstring in the reference set: one of its predecessor
\* or successor extensions, or the reverse complement of one, is in the set.
Extensions(k, kmer) ==
    UNION {{predecessor(k, kmer, character), successor(k, kmer, character)} :
           character \in Bases}

HasSuperstringIn(k, kmer, all_kmers) ==
    \E x \in Extensions(k, kmer) :
        x \in Range(all_kmers) \/ reverse_complement(k, x) \in Range(all_kmers)

\* The merge is about to take the Less arm in error-tolerant mode.
TolerantLess ==
    /\ pc = "merge"
    /\ config.allow_cuttlefish2_errors
    /\ BothPeek
    /\ unitig_kmer < test_tig_kmer

\* C1: with verification on and error-tolerant mode off, the result is Ok only
\* if the canonical k-mers of the reference stream and of the test stream are
\* the same set.
C1_OkOnlyIfSameSets ==
    (/\ Returned
     /\ ~config.do_not_verify
     /\ ~config.allow_cuttlefish2_errors
     /\ verdict = "Ok")
        => content.unitigs = content.test_tigs

\* C2: with verification on and error-tolerant mode off, two streams with the
\* same set of canonical k-mers are found Ok, however the records are cut,
\* whichever strand they are on and whether or not a k-mer repeats.
C2_SameSetsAreOk ==
    (/\ Returned
     /\ ~config.do_not_verify
     /\ ~config.allow_cuttlefish2_errors
     /\ content.unitigs = content.test_tigs)
        => verdict = "Ok"

C4_LoneKmersMayBeAbsent ==
    (/\ Returned
     /\ ~config.do_not_verify
     /\ config.allow_cuttlefish2_errors
     /\ content.test_tigs \subseteq content.unitigs
     /\ (content.unitigs \ content.test_tigs) \cap content.joined = {})
        => verdict = "Ok"

\* C5: with do_not_verify the result is never Mismatch.
C5_StatisticsOnlyNeverMismatch ==
    (pc = "done" /\ config.do_not_verify) => verdict # "Mismatch"

(***************************************************************************)
(* The parser's claims.                                                    *)
(***************************************************************************)
\* All windows of length k of a sequence run, left to right.
Windows(k, s) ==
    [i \in 1..(IF Len(s) >= k THEN Len(s) - k + 1 ELSE 0) |->
        from_iter(k, SubSeq(s, i, i + k - 1))]

ConflictWarnings == {"Found GFA within fasta", "Found fasta within GFA"}

\* C6: the k-mers next() has returned for the current record are exactly, in
\* order, all length-K windows of the record's sequence run (the bases read in
\* the sequence state, uppercased, newlines of a FASTA body left out); a run
\* shorter than K has none, and the window of a k-mer never reaches back into
\* the previous record. A k-mer just returned is the latest window.
C6_AllWindowsInOrder ==
    /\ emitted = Windows(iterator.k, run)
    /\ last.tag = "Some" => (emitted # <<>> /\ last.kmer = emitted[Len(emitted)])

C6_Witness ==
    /\ tally.runs >= 2
    /\ Len(emitted) >= 2
    /\ iterator.state = "FaSequence"

\* C7: every read that finds the stream at its end puts the parser in Eof and
\* makes next() return None, whatever state it was in (GfaS before the first
\* tab included); from Eof on the state stays Eof and no k-mer is returned.
C7_EndOfStreamReachesEof ==
    [][/\ (at_eof' /\ panicked' = "") => (iterator'.state = "Eof" /\ last' = None)
       /\ iterator.state = "Eof" =>
            (iterator'.state = "Eof" /\ last'.tag # "Some" /\ tally'.kmers = tally.kmers)]_vars

\* A ">" was just read in state FaSequence.
ReadsHeaderMarker ==
    /\ iterator.state = "FaSequence"
    /\ consumed' = consumed + 1
    /\ character_buffer' = ">"

\* C8 as stated: a ">" read in FaSequence moves to FaId and leaves the window
\* as it was.
C8_WindowKeptAtHeader ==
    [][ReadsHeaderMarker =>
        (iterator'.state = "FaId" /\ iterator'.buffer = iterator.buffer)]_vars

\* C8 amended: a ">" read in FaSequence moves to FaId and clears the window,
\* adding the bytes it held to character_count; a record's sequence always
\* starts with an empty window.
C8_WindowFlushedAtHeader ==
    [][/\ ReadsHeaderMarker =>
            /\ iterator'.state = "FaId"
            /\ iterator'.buffer = <<>>
            /\ iterator'.character_count = iterator.character_count + Len(iterator.buffer)
       /\ (iterator.state \notin SequenceStates /\ iterator'.state \in SequenceStates) =>
            iterator'.buffer = <<>>]_vars

C8_Witness ==
    /\ previous_state = "FaSequence"
    /\ iterator.state = "FaId"
    /\ iterator.k > 1
    /\ run # <<>>
    /\ iterator.buffer = <<>>

\* C9: the counters never decrease, and once the parser is exhausted
\* sequence_count is the number of records whose sequence field was reached and
\* character_count the number of A/C/G/T bytes (in either case) read in
\* sequence fields, the bytes that never filled a window included.
C9_CountersCumulative ==
    [][/\ iterator'.sequence_count >= iterator.sequence_count
       /\ iterator'.character_count >= iterator.character_count
       /\ iterator'.state = "Eof" =>
            /\ iterator'.sequence_count = tally'.runs
            /\ iterator'.character_count = tally'.bases]_vars

C9_Witness ==
    /\ iterator.state = "Eof"
    /\ iterator.sequence_count = 2
    /\ tally.kmers >= 1
    /\ Len(run) >= 1
    /\ Len(run) < iterator.k

\* C10: in lenient mode, once the stream has held both a line that begins with
\* ">" and a segment line up to its sequence field, a format-conflict warning
\* was logged, nothing panicked, and the segment's sequence field was entered.
C10_BothDialectsLenient ==
    (~iterator.panic_on_parse_error /\ raw.fa_record /\ raw.gfa_record) =>
        /\ panicked = ""
        /\ log \cap ConflictWarnings # {}
        /\ tally.gfa_runs >= 1

\* C11: an iterator that reaches Eof without having read a ">" or an "S" has
\* returned no k-mer and raises "Found no kmers" in the call of next() that
\* enters Eof, as a warning when parse errors are warnings and as a panic when
\* they are fatal; once a marker was read it is never raised.
C11_NoKmersFound ==
    /\ (iterator.state = "Eof" /\ ~raw.marker) =>
            /\ tally.kmers = 0
            /\ IF iterator.panic_on_parse_error
               THEN panicked = "Found no kmers" /\ last = Pending
               ELSE "Found no kmers" \in log /\ last = None /\ panicked = ""
    /\ raw.marker => ("Found no kmers" \notin log /\ panicked # "Found no kmers")
    /\ iterator.state # "Eof" => ("Found no kmers" \notin log /\ panicked # "Found no kmers")

\* A stream of bytes without a marker has ended, under either mode.
C11_Witness ==
    /\ iterator.state = "Eof"
    /\ ~raw.marker
    /\ consumed >= 2
    /\ tally.kmers = 0
    /\ \/ panicked = "Found no kmers"
       \/ "Found no kmers" \in log

\* C20: once next() has returned None, the number of k-mers returned is
\* character_count - sequence_count * (k - 1), a subtraction that does not
\* underflow.
C20_KmersMatchCounters ==
    (last = None /\ panicked = "") =>
        /\ iterator.character_count >= iterator.sequence_count * (iterator.k - 1)
        /\ tally.kmers =
                iterator.character_count - iterator.sequence_count * (iterator.k - 1)

\* C12: two streams of segment lines that differ only in the fields after the
\* sequence field give, once both have ended, the same k-mers in the same
\* order, the same sequence_count and the same character_count.
C12_TrailingFieldsNotRead ==
    at_eof =>
        /\ segment.first = segment.second
        /\ iterator.sequence_count = segment.twin.sequence_count
        /\ iterator.character_count = segment.twin.character_count

(***************************************************************************)
(* The codec's claims.                                                     *)
(***************************************************************************)
\* The string a k-mer stands for, read off its value: base-4 digits of the
\* integer, most significant first, or pairs of bits of the vector.
TextOf(kmer_type, k, kmer) ==
    IF kmer_type = "BitPackedKmer"
    THEN [i \in 1..k |-> CHARACTERS[((kmer \div (4 ^ (k - i))) % 4) + 1]]
    ELSE [i \in 1..(Len(kmer) \div 2) |->
            CHARACTERS[(IF kmer[2 * i - 1] THEN 2 ELSE 0) + (IF kmer[2 * i] THEN 1 ELSE 0) + 1]]

Complement(character) ==
    CASE character = "A" -> "T"
      [] character = "C" -> "G"
      [] character = "G" -> "C"
      [] character = "T" -> "A"

ReverseComplementText(text) ==
    [i \in 1..Len(text) |-> Complement(text[Len(text) + 1 - i])]

Rank(character) == CHOOSE i \in 1..4 : CHARACTERS[i] = character

\* Lexicographic order of two strings of the same length, A < C < G < T.
LexLess(a, b) ==
    \E i \in 1..Len(a) :
        /\ Rank(a[i]) < Rank(b[i])
        /\ \A j \in 1..(i - 1) : a[j] = b[j]

\* A BitPackedKmer has no bit set above its 2K bits; a vector has 2K bits.
WithinWidth(kmer_type, k, kmer) ==
    IF kmer_type = "BitPackedKmer" THEN kmer >= 0 /\ kmer < 4 ^ k ELSE Len(kmer) = 2 * k

CodecText(kmer) == TextOf(codec.kmer_type, codec.k, kmer)

\* C13: reverse_complement gives the k-mer of the reversed, complemented
\* string, within 2K bits, and applied again gives the k-mer back.
C13_ReverseComplement ==
    (codec.pc = "ready" /\ codec.operation = "reverse_complement") =>
        /\ CodecText(codec.kmer) = ReverseComplementText(CodecText(codec.operand))
        /\ WithinWidth(codec.kmer_type, codec.k, codec.kmer)
        /\ kmer_reverse_complement(codec.kmer_type, codec.k, codec.kmer) = codec.operand

\* reverse_complement was applied to a palindromic k-mer of at least two bases.
C13_Witness ==
    /\ codec.pc = "ready"
    /\ codec.operation = "reverse_complement"
    /\ codec.k >= 2
    /\ codec.kmer = codec.operand
    /\ CodecText(codec.kmer)[1] = "A"

\* C14: canonical(x) is the smaller of x and reverse_complement(x) in the
\* order of the k-mers; it is its own canonical form and the canonical form of
\* reverse_complement(x), and it is x when x is self-complementary.
C14_Canonical ==
    (codec.pc = "ready" /\ codec.operation = "canonical") =>
        LET x == codec.operand
            rc == kmer_reverse_complement(codec.kmer_type, codec.k, x)
        IN  /\ codec.kmer = IF kmer_cmp(codec.kmer_type, rc, x) = "Less" THEN rc ELSE x
            /\ kmer_cmp(codec.kmer_type, codec.kmer, x) # "Greater"
            /\ kmer_cmp(codec.kmer_type, codec.kmer, rc) # "Greater"
            /\ ~LexLess(CodecText(x), CodecText(codec.kmer))
            /\ ~LexLess(CodecText(rc), CodecText(codec.kmer))
            /\ codec.kmer \in {x, rc}
            /\ kmer_canonical(codec.kmer_type, codec.k, codec.kmer) = codec.kmer
            /\ kmer_canonical(codec.kmer_type, codec.k, rc) = codec.kmer
            /\ (x = rc => codec.kmer = x)

\* canonical was applied to a k-mer larger than its reverse complement.
C14_Witness ==
    /\ codec.pc = "ready"
    /\ codec.operation = "canonical"
    /\ codec.k >= 2
    /\ codec.kmer # codec.operand
    /\ CodecText(codec.operand)[1] = "T"

\* C15: successor(x, c) is x without its first base followed by c, and
\* predecessor(x, c) is c followed by x without its last base, within 2K bits;
\* predecessor undoes successor and successor undoes predecessor.
C15_SuccessorPredecessor ==
    LET x == CodecText(codec.operand)
        k == codec.k
    IN  /\ codec.operation = "successor" =>
            /\ codec.pc = "ready"
            /\ CodecText(codec.kmer) = SubSeq(x, 2, k) \o <<codec.character>>
            /\ WithinWidth(codec.kmer_type, k, codec.kmer)
            /\ kmer_predecessor(codec.kmer_type, k, codec.kmer, x[1]) = codec.operand
        /\ codec.operation = "predecessor" =>
            /\ codec.pc = "ready"
            /\ CodecText(codec.kmer) = <<codec.character>> \o SubSeq(x, 1, k - 1)
            /\ WithinWidth(codec.kmer_type, k, codec.kmer)
            /\ kmer_successor(codec.kmer_type, k, codec.kmer, x[k]) = codec.operand

\* C16: two k-mers compare as the strings they were made from do.
C16_OrderIsLexicographic ==
    (codec.pc = "ready" /\ codec.operation = "cmp") =>
        /\ codec.ordering =
                IF codec.window = codec.other THEN "Equal"
                ELSE IF LexLess(codec.window, codec.other) THEN "Less"
                ELSE "Greater"
        /\ (codec.ordering = "Equal") <=>
                (codec.kmer = kmer_from_iter(codec.kmer_type, codec.k, codec.other))

\* Two k-mers that differ in their last base only were compared.
C16_Witness ==
    /\ codec.pc = "ready"
    /\ codec.operation = "cmp"
    /\ codec.k >= 3
    /\ codec.ordering = "Greater"
    /\ codec.window[codec.k] = "T"
    /\ codec.other[codec.k] = "G"
    /\ \A i \in 1..(codec.k - 1) : codec.window[i] = codec.other[i]

\* C17: the text Display writes for the k-mer made from a string of K bases is
\* that string.
C17_DisplayOfDecoded ==
    (codec.pc = "ready" /\ codec.operation = "fmt" /\ codec.window # <<>>) =>
        codec.text = codec.window

\* A k-mer that fills its integer, with different bases, was written out.
C17_Witness ==
    /\ codec.pc = "ready"
    /\ codec.operation = "fmt"
    /\ codec.kmer_type = "BitPackedKmer"
    /\ 2 * codec.k = IntegerBits(codec.k)
    /\ codec.window = codec.text
    /\ codec.window[1] = "T"
    /\ codec.window[codec.k] = "C"

\* C18: from_iter fails, and makes no k-mer, when a byte of the window is not
\* one of A, C, G, T or when the window has not K bytes.
C18_DecodeFails ==
    (/\ codec.operation = "from_iter"
     /\ \/ Len(codec.window) # codec.k
        \/ \E i \in 1..Len(codec.window) : codec.window[i] \notin Bases)
        => (codec.pc = "panic" /\ codec.kmer = NoKmer(codec.kmer_type))

(***************************************************************************)
(* The claim of main.                                                      *)
(***************************************************************************)
Matched == dispatch.pc \in {"returned", "compare_kmer_sets", "kmer"} \/ dispatch.kmer_type # ""

\* C19: K = 0 gives IllegalKmerSize with no byte of a stream read; K from 1 to
\* 64 runs BitPackedKmer over an integer of at least 2K bits, whose width
\* assertion never fails; K above 64 runs BitPackedVectorKmer.
C19_Dispatch ==
    /\ (Matched /\ dispatch.k = 0) =>
            /\ dispatch.pc = "returned"
            /\ dispatch.result = "IllegalKmerSize"
            /\ dispatch.bytes_read = 0
            /\ dispatch.kmer_type = ""
    /\ dispatch.result = "IllegalKmerSize" => dispatch.k = 0
    /\ (Matched /\ dispatch.k \in 1..64) =>
            /\ dispatch.kmer_type = "BitPackedKmer"
            /\ dispatch.integer \in {8, 16, 32, 64, 128}
            /\ 2 * dispatch.k <= dispatch.integer
            /\ dispatch.pc \in {"compare_kmer_sets", "kmer"}
            /\ dispatch.panic = ""
    /\ (Matched /\ dispatch.k > 64) =>
            /\ dispatch.kmer_type = "BitPackedVectorKmer"
            /\ dispatch.pc \in {"compare_kmer_sets", "kmer"}

\* A k-mer of 64 bases was made in a BitPackedKmer over 128 bits.
C19_Witness ==
    /\ dispatch.pc = "kmer"
    /\ dispatch.k = 64
    /\ dispatch.kmer_type = "BitPackedKmer"
    /\ dispatch.integer = 128
    /\ dispatch.bytes_read = 64

(***************************************************************************)
(* The parser's invariants.                                                *)
(***************************************************************************)
\* The pass of the loop just taken read `character` in State::None.
ReadInNone(character) ==
    /\ iterator.state = "None"
    /\ panicked = ""
    /\ consumed' = consumed + 1
    /\ character_buffer' = character

\* The pass flagged a format conflict with `message` and went on to `state`.
Flagged(message, state) ==
    IF iterator.panic_on_parse_error
    THEN panicked' = message /\ last' = Pending /\ iterator' = iterator
    ELSE /\ message \in log'
         /\ panicked' = ""
         /\ iterator'.state = state
         /\ iterator'.format = iterator.format

\* C21: the format, once Gfa or Fa, never changes; a marker of the other
\* dialect read in State::None is warned about and followed in lenient mode
\* and panics in strict mode.
C21_FormatSticky ==
    [][/\ iterator.format # "None" => iterator'.format = iterator.format
       /\ (ReadInNone("S") /\ iterator.format = "Fa") =>
                Flagged("Found GFA within fasta", "GfaS")
       /\ (ReadInNone(">") /\ iterator.format = "Gfa") =>
                Flagged("Found fasta within GFA", "FaId")
       /\ (ReadInNone("S") /\ iterator.format # "Fa") =>
                (log' = log /\ panicked' = "" /\ iterator'.format = "Gfa")
       /\ (ReadInNone(">") /\ iterator.format # "Gfa") =>
                (log' = log /\ panicked' = "" /\ iterator'.format = "Fa")]_vars

\* A segment line inside a FASTA stream was warned about and its sequence
\* field entered, the format still Fa.
C21_Witness ==
    /\ iterator.format = "Fa"
    /\ iterator.state = "GfaSequence"
    /\ "Found GFA within fasta" \in log
    /\ ~iterator.panic_on_parse_error
    /\ panicked = ""

\* The panics of the assertions on the window and of from_iter.
WindowPanics ==
    {"assertion failed: buffer.len() <= k",
     "assertion failed: 2 * K <= 8 * size_of Integer",
     "assertion failed: left == right",
     "Not a DNA character"}

\* The last K bases of the run being read: the window of the last decode.
LastWindow == SubSeq(run, Len(run) - iterator.k + 1, Len(run))

\* C22: the window holds fewer than K bytes after every pass of the loop (K
\* only while a k-mer is made of it), all of them bases, and none outside the
\* two sequence states; each k-mer returned was made of exactly K bases, which
\* both k-mer types accept, and no assertion on the window fails.
C22_WindowInvariant ==
    /\ Len(iterator.buffer) <= iterator.k
    /\ Len(iterator.buffer) <= iterator.k - 1
    /\ \A i \in 1..Len(iterator.buffer) : iterator.buffer[i] \in Bases
    /\ iterator.state \notin SequenceStates => iterator.buffer = <<>>
    /\ panicked \notin WindowPanics
    /\ last.tag = "Some" =>
            /\ Len(run) >= iterator.k
            /\ Len(LastWindow) = iterator.k
            /\ \A i \in 1..iterator.k : LastWindow[i] \in Bases
            /\ from_iter_panic(iterator.k, LastWindow) = ""
            /\ vector_from_iter_panic(LastWindow) = ""
            /\ last.kmer = from_iter(iterator.k, LastWindow)
            /\ iterator.buffer = Tail(LastWindow)

\* A k-mer was returned whose last byte was read in lower case, the window
\* keeping K - 1 bases of it.
C22_Witness ==
    /\ last.tag = "Some"
    /\ character_buffer = "a"
    /\ iterator.k >= 2
    /\ Len(iterator.buffer) = iterator.k - 1
    /\ iterator.buffer[Len(iterator.buffer)] = "A"
    /\ tally.kmers >= 2

====
